---- MODULE Spec2Model ----
(***************************************************************************)
(* Model of the token service of src/main.py: the /get-token handler       *)
(* (get_token), the direct exchange (fallback_request), the bounded        *)
(* wrapper (run_2captcha_with_timeout) and the browser solver              *)
(* (solve_cloudflare_with_2captcha).                                       *)
(*                                                                         *)
(* A request handler runs on the asyncio event loop; the solver runs on a  *)
(* worker thread of the default executor.  Texts (response bodies, pages,  *)
(* fetch results) are modelled by what the code reads of them: whether     *)
(* they are empty, which marker substrings they contain, and the JSON      *)
(* value they parse to.                                                    *)
(***************************************************************************)
EXTENDS Integers, Sequences, FiniteSets, TLC

\* ------------------------------------------------------------------ bounds

\* Seconds of waiting that one Tick of a wrapper's clock stands for.
TickSec == 100

\* The requests of one behaviour.  Requests share no state but the event
\* loop, and get_token holds the loop from its start to its await.
Reqs == {1}

\* --------------------------------------------------------------- constants

\* timeout_sec of run_2captcha_with_timeout, as get_token passes it.
TimeoutSec == 300

\* --------------------------------------------------------- texts and JSON

\* Python's None.
None == [tag |-> "None"]

\* The marker substrings the code searches for.
JustAMoment == "Just a moment"
CfChallenge == "cf-challenge"
ChallengesHost == "challenges.cloudflare.com"
Markers == {JustAMoment, CfChallenge, ChallengesHost}

\* JSON scalars as the code's model classes see them.
JStr(s) == [ty |-> "str", s |-> s, n |-> 0]
JInt(n) == [ty |-> "int", s |-> "", n |-> n]

\* JSON values: no value (the text is not JSON), an array of scalars, an
\* object mapping keys to scalars.
NotJson == [t |-> "invalid", f |-> <<>>]
JArray(items) == [t |-> "array", f |-> items]
JObject(f) == [t |-> "object", f |-> f]

\* A text: empty or not, the markers it contains, the value it parses to.
Text(j, m) == [tag |-> "text", empty |-> FALSE, marks |-> m, json |-> j]
EmptyText == [tag |-> "text", empty |-> TRUE, marks |-> {}, json |-> NotJson]

\* The text of a JSON document contains the markers its strings contain.
MarkersIn(j) ==
    {m \in Markers : \E k \in DOMAIN j.f : j.f[k].ty = "str" /\ j.f[k].s = m}
JsonText(j) == Text(j, MarkersIn(j))

\* Sample JSON documents: three well-formed token bodies (the second carries
\* an extra key, the third an extra key whose string is a marker), a token
\* body whose expires_in is a numeric string, one whose expires_in is a string
\* that is no number, an object lacking expires_in, an error object whose
\* string is a marker, an array.
TokenJsonA ==
    JObject([k \in {"access_token", "expires_in", "token_type"} |->
        CASE k = "access_token" -> JStr("abc")
          [] k = "expires_in" -> JInt(3600)
          [] OTHER -> JStr("Bearer")])
TokenJsonB ==
    JObject([k \in {"access_token", "expires_in", "token_type", "scope"} |->
        CASE k = "access_token" -> JStr("xyz")
          [] k = "expires_in" -> JInt(1800)
          [] k = "token_type" -> JStr("Bearer")
          [] OTHER -> JStr("all")])
TokenJsonM ==
    JObject([k \in {"access_token", "expires_in", "token_type", "note"} |->
        CASE k = "access_token" -> JStr("abc")
          [] k = "expires_in" -> JInt(1800)
          [] k = "token_type" -> JStr("Bearer")
          [] OTHER -> JStr(CfChallenge)])
TokenJsonS ==
    JObject([k \in {"access_token", "expires_in", "token_type"} |->
        CASE k = "access_token" -> JStr("abc")
          [] k = "expires_in" -> JStr("1800")
          [] OTHER -> JStr("Bearer")])
WrongTypeJson ==
    JObject([k \in {"access_token", "expires_in", "token_type"} |->
        CASE k = "access_token" -> JStr("abc")
          [] k = "expires_in" -> JStr("soon")
          [] OTHER -> JStr("Bearer")])
PartialJson ==
    JObject([k \in {"access_token", "token_type"} |->
        IF k = "access_token" THEN JStr("abc") ELSE JStr("Bearer")])
ErrorJson == JObject([k \in {"error"} |-> JStr(JustAMoment)])
ArrayJson == JArray(<<JInt(1)>>)
JsonSamples ==
    {TokenJsonA, TokenJsonB, TokenJsonM, TokenJsonS, WrongTypeJson,
     PartialJson, ErrorJson, ArrayJson}

\* Marker sets of the sample texts that are not JSON (pages, error bodies).
MarkSamples == {{}, {JustAMoment}, {CfChallenge}, {ChallengesHost}}

Texts ==
    {JsonText(j) : j \in JsonSamples}
        \cup {Text(NotJson, m) : m \in MarkSamples}
        \cup {EmptyText}

\* Status codes of the direct exchange's responses.
Statuses == {200, 201, 403, 500}

Responses == [tag : {"response"}, status_code : Statuses, text : Texts]

\* `marker in text`
Contains(text, marker) == marker \in text.marks

\* bool(x) for the values the handler tests: None, a str, a requests.Response
\* (Response.__bool__ is Response.ok: no 4xx or 5xx status).
Truthy(x) ==
    CASE x.tag = "None" -> FALSE
      [] x.tag = "text" -> ~x.empty
      [] x.tag = "response" -> ~(400 <= x.status_code /\ x.status_code < 600)

\* json.loads / Response.json: the value, or a JSONDecodeError.
JsonDecodes(text) == text.json.t # "invalid"
json_loads(text) == text.json

\* The model class's validation of `expires_in: int`: an int is taken as it
\* is and a string that spells a number is converted; any other string is
\* rejected.
IsNumeric(s) == s \in {"1800", "3600"}
IntOfStr(s) == CASE s = "1800" -> 1800 [] s = "3600" -> 3600
CoercesToInt(v) == v.ty = "int" \/ (v.ty = "str" /\ IsNumeric(v.s))
AsInt(v) == IF v.ty = "int" THEN v.n ELSE IntOfStr(v.s)

\* TokenResponse(**token_data): ** needs a mapping; the model needs its three
\* fields with their types; other keys are ignored.
TokenFields == {"access_token", "expires_in", "token_type"}
TokenValidates(data) ==
    /\ data.t = "object"
    /\ TokenFields \subseteq DOMAIN data.f
    /\ data.f["access_token"].ty = "str"
    /\ CoercesToInt(data.f["expires_in"])
    /\ data.f["token_type"].ty = "str"

\* Variant: access_token and token_type taken from each other's key.
TokenResponseSwapped(data) ==
    [kind |-> "token",
     access_token |-> data.f["token_type"].s,
     expires_in |-> AsInt(data.f["expires_in"]),
     token_type |-> data.f["access_token"].s,
     error |-> "", message |-> "", status_code |-> 0]

TokenResponse(data) ==
    [kind |-> "token",
     access_token |-> data.f["access_token"].s,
     expires_in |-> AsInt(data.f["expires_in"]),
     token_type |-> data.f["token_type"].s,
     error |-> "", message |-> "", status_code |-> 0]

ErrorResponse(error, message, status_code) ==
    [kind |-> "error",
     access_token |-> "", expires_in |-> 0, token_type |-> "",
     error |-> error, message |-> message, status_code |-> status_code]

\* ---------------------------------------------------------------- state

VARIABLES
    running,    \* the request whose handler holds the event loop, 0 when idle
    pc,         \* pc[r]: position of request r's handler in get_token
    response,   \* response[r]: the local `response` of get_token
    returned,   \* returned[r]: the results get_token has returned for r
    hlog,       \* hlog[r]: what the handler has done, in order
    clock,      \* clock[r]: seconds r has waited in asyncio.wait_for
    wout,       \* wout[r]: how the wrapper ended: "result", "failure", "timeout"
    spc,        \* spc[r]: position of r's solver invocation on its worker
    session,    \* session[r]: the solver's browser session
    page,       \* page[r]: the local `page` of the solver
    sret,       \* sret[r]: the solver's outcome, as its executor future sees it
    slog        \* slog[r]: the browser and solving-service calls of the solver

hvars == <<running, pc, response, returned, hlog, clock, wout>>
svars == <<spc, session, page, sret, slog>>
vars == <<running, pc, response, returned, hlog, clock, wout,
          spc, session, page, sret, slog>>

\* Outcomes of a future or of an awaited call.
Pending == [k |-> "pending", v |-> None, exc |-> ""]
Returning(v) == [k |-> "returning", v |-> v, exc |-> ""]
Return(v) == [k |-> "return", v |-> v, exc |-> ""]
Raise(exc) == [k |-> "raise", v |-> None, exc |-> exc]

\* The executor future of r's solver is done.
FutDone(r) == sret[r].k \in {"return", "raise"}

Init ==
    /\ running = 0
    /\ pc = [r \in Reqs |-> "idle"]
    /\ response = [r \in Reqs |-> None]
    /\ returned = [r \in Reqs |-> <<>>]
    /\ hlog = [r \in Reqs |-> <<>>]
    /\ clock = [r \in Reqs |-> 0]
    /\ wout = [r \in Reqs |-> "none"]
    /\ spc = [r \in Reqs |-> "idle"]
    /\ session = [r \in Reqs |-> "none"]
    /\ page = [r \in Reqs |-> None]
    /\ sret = [r \in Reqs |-> Pending]
    /\ slog = [r \in Reqs |-> <<>>]

\* `return x` from get_token: the result goes to the caller, the loop is free.
Finish(r, result) ==
    /\ returned' = [returned EXCEPT ![r] = Append(@, result)]
    /\ pc' = [pc EXCEPT ![r] = "done"]
    /\ running' = 0

\* ------------------------------------------------------ get_token, part 1

\* Variant: the solver is handed to the executor when the request starts.
AcceptSpeculative(r) ==
    /\ pc[r] = "idle"
    /\ running = 0
    /\ running' = r
    /\ pc' = [pc EXCEPT ![r] = "direct"]
    /\ hlog' = [hlog EXCEPT ![r] = Append(@, "direct")]
    /\ spc' = [spc EXCEPT ![r] = "launch"]
    /\ UNCHANGED <<response, returned, clock, wout>>
    /\ UNCHANGED <<session, page, sret, slog>>

\* The loop runs the handler, which calls fallback_request().
Accept(r) ==
    /\ pc[r] = "idle"
    /\ running = 0
    /\ running' = r
    /\ pc' = [pc EXCEPT ![r] = "direct"]
    /\ hlog' = [hlog EXCEPT ![r] = Append(@, "direct")]
    /\ UNCHANGED <<response, returned, clock, wout>>
    /\ UNCHANGED svars

\* requests.post returns a response, one of `responses`.
DirectRespondFrom(r, responses) ==
    /\ pc[r] = "direct"
    /\ \E resp \in responses : response' = [response EXCEPT ![r] = resp]
    /\ pc' = [pc EXCEPT ![r] = "parse"]
    /\ UNCHANGED <<running, returned, hlog, clock, wout>>
    /\ UNCHANGED svars

\* requests.post returns a response.
DirectRespond(r) == DirectRespondFrom(r, Responses)

\* requests.post raises; the handler sets response = None.
DirectRaise(r) ==
    /\ pc[r] = "direct"
    /\ response' = [response EXCEPT ![r] = None]
    /\ pc' = [pc EXCEPT ![r] = "parse"]
    /\ UNCHANGED <<running, returned, hlog, clock, wout>>
    /\ UNCHANGED svars

\* `if response and response.status_code == 200:`
IsOk200(resp) == Truthy(resp) /\ resp.status_code = 200

\* The try block under it returns a TokenResponse.
DirectToken(resp) ==
    /\ IsOk200(resp)
    /\ JsonDecodes(resp.text)
    /\ TokenValidates(json_loads(resp.text))

\* Variant: the token is handed back without leaving the handler.
ReturnDirectTokenGoesOn(r) ==
    /\ pc[r] = "parse"
    /\ DirectToken(response[r])
    /\ hlog' = [hlog EXCEPT ![r] = Append(@, "json")]
    /\ returned' = [returned EXCEPT ![r] =
           Append(@, TokenResponse(json_loads(response[r].text)))]
    /\ pc' = [pc EXCEPT ![r] = "check"]
    /\ UNCHANGED <<running, response, clock, wout>>
    /\ UNCHANGED svars

\* Status 200 and a token body: return TokenResponse(**response.json()).
ReturnDirectToken(r) ==
    /\ pc[r] = "parse"
    /\ DirectToken(response[r])
    /\ hlog' = [hlog EXCEPT ![r] = Append(@, "json")]
    /\ Finish(r, TokenResponse(json_loads(response[r].text)))
    /\ UNCHANGED <<response, clock, wout>>
    /\ UNCHANGED svars

\* Variant: a status-200 response that gives no token ends the request.
FallThroughTerminal(r) ==
    /\ pc[r] = "parse"
    /\ ~DirectToken(response[r])
    /\ IF IsOk200(response[r])
       THEN /\ hlog' = [hlog EXCEPT ![r] = Append(@, "json")]
            /\ Finish(r, ErrorResponse("invalid_response",
                   "Received invalid JSON", 500))
       ELSE /\ pc' = [pc EXCEPT ![r] = "check"]
            /\ UNCHANGED <<running, returned, hlog>>
    /\ UNCHANGED <<response, clock, wout>>
    /\ UNCHANGED svars

\* Otherwise: the body is not parsed (no response, or not status 200), or the
\* parse or the validation raised and was logged; go on to the challenge check.
FallThrough(r) ==
    /\ pc[r] = "parse"
    /\ ~DirectToken(response[r])
    /\ hlog' = [hlog EXCEPT ![r] =
           IF IsOk200(response[r]) THEN Append(@, "json") ELSE @]
    /\ pc' = [pc EXCEPT ![r] = "check"]
    /\ UNCHANGED <<running, response, returned, clock, wout>>
    /\ UNCHANGED svars

\* Variant: only the interstitial phrase is looked for.
HandlerDetectsPhraseOnly(text) == Contains(text, JustAMoment)

\* The marker test of get_token on the direct response's text.
HandlerDetects(text) ==
    Contains(text, JustAMoment) \/ Contains(text, CfChallenge)

\* Variant: every response that is not a 200 counts as a challenge.
ShouldUse2CaptchaNon200(resp) ==
    IF resp.tag = "None" THEN TRUE
    ELSE resp.status_code # 200 \/ HandlerDetects(resp.text)

\* Variant: a missing response is not sent to the browser path.
ShouldUse2CaptchaNeedsResponse(resp) ==
    IF resp.tag = "None" THEN FALSE ELSE HandlerDetects(resp.text)

\* should_use_2captcha
ShouldUse2Captcha(resp) ==
    IF resp.tag = "None" THEN TRUE ELSE HandlerDetects(resp.text)

\* What the challenge check adds to the handler's log.
CheckLog(resp) == IF resp.tag = "None" THEN <<>> ELSE <<"detect">>

\* should_use_2captcha is set: await run_2captcha_with_timeout(300), which
\* hands the solver to the executor and waits for it; the loop is free.
StartBrowserPath(r) ==
    /\ pc[r] = "check"
    /\ ShouldUse2Captcha(response[r])
    /\ hlog' = [hlog EXCEPT ![r] = @ \o CheckLog(response[r]) \o <<"browser">>]
    /\ pc' = [pc EXCEPT ![r] = "await"]
    /\ running' = 0
    /\ clock' = [clock EXCEPT ![r] = 0]
    /\ spc' = [spc EXCEPT ![r] = "launch"]
    /\ UNCHANGED <<response, returned, wout>>
    /\ UNCHANGED <<session, page, sret, slog>>

AllMethodsFailed ==
    ErrorResponse("all_methods_failed", "All methods to obtain token failed", 500)

\* should_use_2captcha stays False: the final return of get_token.
GiveUp(r) ==
    /\ pc[r] = "check"
    /\ ~ShouldUse2Captcha(response[r])
    /\ hlog' = [hlog EXCEPT ![r] = @ \o CheckLog(response[r])]
    /\ Finish(r, AllMethodsFailed)
    /\ UNCHANGED <<response, clock, wout>>
    /\ UNCHANGED svars

\* ------------------------------------------- run_2captcha_with_timeout

\* Time passes for a request that waits in asyncio.wait_for.  A free loop
\* runs a handler whose future is done at once, so no time passes then; the
\* deadline's timer fires when the clock reaches it.
Tick(r) ==
    /\ pc[r] = "await"
    /\ clock[r] < TimeoutSec
    /\ ~(FutDone(r) /\ running = 0)
    /\ clock' = [clock EXCEPT ![r] = @ + TickSec]
    /\ UNCHANGED <<running, pc, response, returned, hlog, wout>>
    /\ UNCHANGED svars

\* What `await run_2captcha_with_timeout()` gives get_token: the solver's
\* return value or exception when wait_for ends with the future, and None
\* when wait_for raises asyncio.TimeoutError (caught and logged there).
run_2captcha_with_timeout(fut, timedOut) ==
    IF timedOut THEN Return(None)
    ELSE IF fut.k = "raise" THEN Raise(fut.exc) ELSE Return(fut.v)

\* ------------------------------------------------------ get_token, part 2

\* Variant: json.JSONDecodeError has no handler of its own and reaches the
\* handler of Exception.
BrowserResultNoDecodeHandler(out) ==
    IF out.k = "raise"
    THEN IF out.exc = "TimeoutError"
         THEN ErrorResponse("timeout",
                  "Captcha solving timed out after 5 minutes", 408)
         ELSE ErrorResponse("captcha_failed", "Captcha solving failed", 500)
    ELSE IF Truthy(out.v)
         THEN IF JsonDecodes(out.v) /\ TokenValidates(json_loads(out.v))
              THEN TokenResponse(json_loads(out.v))
              ELSE ErrorResponse("captcha_failed",
                       "Captcha solving failed", 500)
         ELSE AllMethodsFailed

\* Variant: a JSON value the model class rejects is reported like text that
\* is no JSON.
BrowserResultRejectInvalid(out) ==
    IF out.k = "raise"
    THEN IF out.exc = "TimeoutError"
         THEN ErrorResponse("timeout",
                  "Captcha solving timed out after 5 minutes", 408)
         ELSE ErrorResponse("captcha_failed", "Captcha solving failed", 500)
    ELSE IF Truthy(out.v)
         THEN IF JsonDecodes(out.v) /\ TokenValidates(json_loads(out.v))
              THEN TokenResponse(json_loads(out.v))
              ELSE ErrorResponse("invalid_response",
                       "Received invalid JSON from 2Captcha solution", 500)
         ELSE AllMethodsFailed

\* The `if should_use_2captcha:` block and the final return, from what the
\* wrapper gave: the handlers of asyncio.TimeoutError and of Exception, the
\* `if result:` test, json.loads, TokenResponse(**token_data).
BrowserResult(out) ==
    IF out.k = "raise"
    THEN IF out.exc = "TimeoutError"
         THEN ErrorResponse("timeout",
                  "Captcha solving timed out after 5 minutes", 408)
         ELSE ErrorResponse("captcha_failed", "Captcha solving failed", 500)
    ELSE IF Truthy(out.v)
         THEN IF ~JsonDecodes(out.v)
              THEN ErrorResponse("invalid_response",
                       "Received invalid JSON from 2Captcha solution", 500)
              ELSE IF TokenValidates(json_loads(out.v))
                   THEN TokenResponse(json_loads(out.v))
                   ELSE ErrorResponse("captcha_failed",
                            "Captcha solving failed", 500)
         ELSE AllMethodsFailed

\* Variant: after the wrapper has answered, the handler goes back to its
\* challenge check instead of returning.
SolverAnswersTriesAgain(r) ==
    /\ pc[r] = "await"
    /\ running = 0
    /\ FutDone(r)
    /\ wout' = [wout EXCEPT ![r] =
           IF sret[r].k = "raise" THEN "failure" ELSE "result"]
    /\ pc' = [pc EXCEPT ![r] = "check"]
    /\ running' = r
    /\ UNCHANGED <<response, returned, hlog, clock>>
    /\ UNCHANGED svars

\* wait_for ends with the solver's future: get_token goes on with its outcome.
SolverAnswers(r) ==
    /\ pc[r] = "await"
    /\ running = 0
    /\ FutDone(r)
    /\ wout' = [wout EXCEPT ![r] =
           IF sret[r].k = "raise" THEN "failure" ELSE "result"]
    /\ Finish(r, BrowserResult(run_2captcha_with_timeout(sret[r], FALSE)))
    /\ UNCHANGED <<response, hlog, clock>>
    /\ UNCHANGED svars

\* Variant: the future is awaited without a deadline.
DeadlineNeverExpires(r) ==
    /\ pc[r] = "await"
    /\ running = 0
    /\ clock[r] >= TimeoutSec
    /\ FutDone(r)
    /\ wout' = [wout EXCEPT ![r] = "result"]
    /\ Finish(r, BrowserResult(run_2captcha_with_timeout(sret[r], FALSE)))
    /\ UNCHANGED <<response, hlog, clock>>
    /\ UNCHANGED svars

\* Variant: at the deadline the worker is stopped where it is.
DeadlineExpiresStopsWorker(r) ==
    /\ pc[r] = "await"
    /\ running = 0
    /\ clock[r] >= TimeoutSec
    /\ wout' = [wout EXCEPT ![r] = "timeout"]
    /\ Finish(r, BrowserResult(run_2captcha_with_timeout(sret[r], TRUE)))
    /\ spc' = [spc EXCEPT ![r] = "finished"]
    /\ UNCHANGED <<response, hlog, clock>>
    /\ UNCHANGED <<session, page, sret, slog>>

\* The deadline's timer fires first: wait_for stops waiting for the future
\* (the worker keeps running the solver) and raises asyncio.TimeoutError.
DeadlineExpires(r) ==
    /\ pc[r] = "await"
    /\ running = 0
    /\ clock[r] >= TimeoutSec
    /\ wout' = [wout EXCEPT ![r] = "timeout"]
    /\ Finish(r, BrowserResult(run_2captcha_with_timeout(sret[r], TRUE)))
    /\ UNCHANGED <<response, hlog, clock>>
    /\ UNCHANGED svars

\* ------------------------------------- solve_cloudflare_with_2captcha

\* A call the solver makes on the browser or the solving service.
Call(r, op) == slog' = [slog EXCEPT ![r] = Append(@, op)]

\* new_chrome_driver() returns a session; the solver enters its try block.
Launch(r) ==
    /\ spc[r] = "launch"
    /\ Call(r, "launch")
    /\ session' = [session EXCEPT ![r] = "open"]
    /\ spc' = [spc EXCEPT ![r] = "get"]
    /\ UNCHANGED <<page, sret>>
    /\ UNCHANGED hvars

\* Variant: a failed launch is tried again.
LaunchFailsTriesAgain(r) ==
    /\ spc[r] = "launch"
    /\ Call(r, "launch")
    /\ UNCHANGED <<spc, session, page, sret>>
    /\ UNCHANGED hvars

\* new_chrome_driver() raises, outside the try block: no session exists and
\* the exception leaves the solver.
LaunchFails(r) ==
    /\ spc[r] = "launch"
    /\ Call(r, "launch")
    /\ sret' = [sret EXCEPT ![r] = Raise("WebDriverException")]
    /\ spc' = [spc EXCEPT ![r] = "finished"]
    /\ UNCHANGED <<session, page>>
    /\ UNCHANGED hvars

\* driver.get(TOKEN_URL); time.sleep(4)
Navigate(r) ==
    /\ spc[r] = "get"
    /\ Call(r, "get")
    /\ spc' = [spc EXCEPT ![r] = "page_source"]
    /\ UNCHANGED <<session, page, sret>>
    /\ UNCHANGED hvars

\* Rendered pages: page_source, or "" when it is None.
Pages == {Text(NotJson, m) : m \in MarkSamples} \cup {EmptyText}

\* The marker test of the solver on the rendered page.
SolverDetects(text) ==
    \/ Contains(text, JustAMoment)
    \/ Contains(text, ChallengesHost)
    \/ Contains(text, CfChallenge)

\* page = driver.page_source or ""; then the marker test; the page is one
\* of `pages`.
ReadPageFrom(r, pages) ==
    /\ spc[r] = "page_source"
    /\ Call(r, "page_source")
    /\ \E p \in pages :
        /\ page' = [page EXCEPT ![r] = p]
        /\ spc' = [spc EXCEPT ![r] =
               IF SolverDetects(p) THEN "wait_frame" ELSE "fetch"]
    /\ UNCHANGED <<session, sret>>
    /\ UNCHANGED hvars

\* page = driver.page_source or ""; then the marker test.
ReadPage(r) == ReadPageFrom(r, Pages)

\* WebDriverWait(driver, 15).until(presence of the challenge iframe): found.
WaitFrame(r) ==
    /\ spc[r] = "wait_frame"
    /\ Call(r, "wait_frame")
    /\ spc' = [spc EXCEPT ![r] = "find_frame"]
    /\ UNCHANGED <<session, page, sret>>
    /\ UNCHANGED hvars

\* Variant: the solving service is called whether or not the frame's URL
\* carries a site key.
FindFrameSolvesAnyway(r) ==
    /\ spc[r] = "find_frame"
    /\ \E hasSiteKey \in BOOLEAN :
        slog' = [slog EXCEPT ![r] =
            @ \o (IF hasSiteKey THEN <<"find_frame", "sitekey">>
                  ELSE <<"find_frame">>)]
    /\ spc' = [spc EXCEPT ![r] = "turnstile"]
    /\ UNCHANGED <<session, page, sret>>
    /\ UNCHANGED hvars

\* find_element, get_attribute("src") or "", re.search(r"sitekey=([^&]+)"):
\* with a match the solver goes on to the solving service, without one it
\* leaves the inner block.
FindFrame(r) ==
    /\ spc[r] = "find_frame"
    /\ \E hasSiteKey \in BOOLEAN :
        /\ slog' = [slog EXCEPT ![r] =
               @ \o (IF hasSiteKey THEN <<"find_frame", "sitekey">>
                     ELSE <<"find_frame">>)]
        /\ spc' = [spc EXCEPT ![r] = IF hasSiteKey THEN "turnstile" ELSE "fetch"]
    /\ UNCHANGED <<session, page, sret>>
    /\ UNCHANGED hvars

\* solver.turnstile(sitekey=..., url=driver.current_url); result.get("code")
Turnstile(r) ==
    /\ spc[r] = "turnstile"
    /\ Call(r, "turnstile")
    /\ spc' = [spc EXCEPT ![r] = "inject"]
    /\ UNCHANGED <<session, page, sret>>
    /\ UNCHANGED hvars

\* driver.execute_script(<set cf-turnstile-response>, token_code); sleep(1)
Inject(r) ==
    /\ spc[r] = "inject"
    /\ Call(r, "inject")
    /\ spc' = [spc EXCEPT ![r] = "fetch"]
    /\ UNCHANGED <<session, page, sret>>
    /\ UNCHANGED hvars

\* Variant: the inner block has no handler of its own, so the error reaches
\* the outer one.
InnerStepRaisesAborts(r) ==
    /\ spc[r] \in {"wait_frame", "find_frame", "turnstile", "inject"}
    /\ Call(r, spc[r])
    /\ sret' = [sret EXCEPT ![r] = Returning(None)]
    /\ spc' = [spc EXCEPT ![r] = "quit"]
    /\ UNCHANGED <<session, page>>
    /\ UNCHANGED hvars

\* A call inside the inner try block raises: `except Exception` logs it and
\* the solver goes on to the token POST.
InnerSteps == {"wait_frame", "find_frame", "turnstile", "inject"}
InnerStepRaises(r) ==
    /\ spc[r] \in InnerSteps
    /\ Call(r, spc[r])
    /\ spc' = [spc EXCEPT ![r] = "fetch"]
    /\ UNCHANGED <<session, page, sret>>
    /\ UNCHANGED hvars

\* return driver.execute_script(js): the fetch's text, one of `texts`, is
\* the return value, and the finally block runs before the solver returns it.
FetchFrom(r, texts) ==
    /\ spc[r] = "fetch"
    /\ Call(r, "fetch")
    /\ \E text \in texts : sret' = [sret EXCEPT ![r] = Returning(text)]
    /\ spc' = [spc EXCEPT ![r] = "quit"]
    /\ UNCHANGED <<session, page>>
    /\ UNCHANGED hvars

\* return driver.execute_script(js)
Fetch(r) == FetchFrom(r, Texts)

\* Variant: the error path returns None without the finally block.
OuterStepRaisesNoFinally(r) ==
    /\ spc[r] \in {"get", "page_source", "fetch"}
    /\ Call(r, spc[r])
    /\ sret' = [sret EXCEPT ![r] = Return(None)]
    /\ spc' = [spc EXCEPT ![r] = "finished"]
    /\ UNCHANGED <<session, page>>
    /\ UNCHANGED hvars

\* A call of the outer try block raises: `except Exception` logs it, the
\* solver is to return None, and the finally block runs.
OuterSteps == {"get", "page_source", "fetch"}
OuterStepRaises(r) ==
    /\ spc[r] \in OuterSteps
    /\ Call(r, spc[r])
    /\ sret' = [sret EXCEPT ![r] = Returning(None)]
    /\ spc' = [spc EXCEPT ![r] = "quit"]
    /\ UNCHANGED <<session, page>>
    /\ UNCHANGED hvars

\* finally: driver.quit(); then the solver returns and its future is done.
Quit(r) ==
    /\ spc[r] = "quit"
    /\ Call(r, "quit")
    /\ session' = [session EXCEPT ![r] = "closed"]
    /\ sret' = [sret EXCEPT ![r] = Return(@.v)]
    /\ spc' = [spc EXCEPT ![r] = "finished"]
    /\ UNCHANGED page
    /\ UNCHANGED hvars

\* ------------------------------------------------------- specification

Handler(r) ==
    \/ Accept(r)
    \/ DirectRespond(r)
    \/ DirectRaise(r)
    \/ ReturnDirectToken(r)
    \/ FallThrough(r)
    \/ StartBrowserPath(r)
    \/ GiveUp(r)
    \/ SolverAnswers(r)
    \/ DeadlineExpires(r)

Solver(r) ==
    \/ Launch(r)
    \/ LaunchFails(r)
    \/ Navigate(r)
    \/ ReadPage(r)
    \/ WaitFrame(r)
    \/ FindFrame(r)
    \/ Turnstile(r)
    \/ Inject(r)
    \/ InnerStepRaises(r)
    \/ Fetch(r)
    \/ OuterStepRaises(r)
    \/ Quit(r)

Next == \E r \in Reqs : Handler(r) \/ Tick(r) \/ Solver(r)

Spec == Init /\ [][Next]_vars

\* Handler steps are fair (requests.post returns or raises within its
\* timeout; the loop runs a ready handler) and time passes; the solver has
\* no fairness: the browser or the solving service may hang for ever.
LiveSpec ==
    /\ Init
    /\ [][Next]_vars
    /\ \A r \in Reqs : WF_vars(Handler(r)) /\ WF_vars(Tick(r))

\* As LiveSpec, and every call of the solver on the browser or the solving
\* service returns or raises: the worker's steps are fair too.
FairSolverSpec ==
    /\ Init
    /\ [][Next]_vars
    /\ \A r \in Reqs :
        WF_vars(Handler(r)) /\ WF_vars(Tick(r)) /\ WF_vars(Solver(r))

\* ------------------------------------------------- concurrent requests

\* Two requests on the one event loop, each with its own solver on its own
\* worker, with a few inputs: a token, a challenge page and a plain error as
\* direct responses; a flagged and an empty page; a token and no text from
\* the fetch.
ConcReqs == {1, 2}
ConcResponses ==
    {[tag |-> "response", status_code |-> 200, text |-> JsonText(TokenJsonA)],
     [tag |-> "response", status_code |-> 403,
      text |-> Text(NotJson, {JustAMoment})],
     [tag |-> "response", status_code |-> 500, text |-> Text(NotJson, {})]}
ConcPages == {Text(NotJson, {JustAMoment}), EmptyText}
ConcTexts == {JsonText(TokenJsonA), EmptyText}

ConcInit ==
    /\ running = 0
    /\ pc = [r \in ConcReqs |-> "idle"]
    /\ response = [r \in ConcReqs |-> None]
    /\ returned = [r \in ConcReqs |-> <<>>]
    /\ hlog = [r \in ConcReqs |-> <<>>]
    /\ clock = [r \in ConcReqs |-> 0]
    /\ wout = [r \in ConcReqs |-> "none"]
    /\ spc = [r \in ConcReqs |-> "idle"]
    /\ session = [r \in ConcReqs |-> "none"]
    /\ page = [r \in ConcReqs |-> None]
    /\ sret = [r \in ConcReqs |-> Pending]
    /\ slog = [r \in ConcReqs |-> <<>>]

ConcHandler(r) ==
    \/ Accept(r)
    \/ DirectRespondFrom(r, ConcResponses)
    \/ DirectRaise(r)
    \/ ReturnDirectToken(r)
    \/ FallThrough(r)
    \/ StartBrowserPath(r)
    \/ GiveUp(r)
    \/ SolverAnswers(r)
    \/ DeadlineExpires(r)

ConcSolver(r) ==
    \/ Launch(r)
    \/ LaunchFails(r)
    \/ Navigate(r)
    \/ ReadPageFrom(r, ConcPages)
    \/ WaitFrame(r)
    \/ FindFrame(r)
    \/ Turnstile(r)
    \/ Inject(r)
    \/ InnerStepRaises(r)
    \/ FetchFrom(r, ConcTexts)
    \/ OuterStepRaises(r)
    \/ Quit(r)

ConcNext == \E r \in ConcReqs : ConcHandler(r) \/ Tick(r) \/ ConcSolver(r)

ConcSpec == ConcInit /\ [][ConcNext]_vars

\* ---------------------------------------------------------------- claims

InLog(log, x) == \E i \in DOMAIN log : log[i] = x
Done(r) == pc[r] = "done"
HasResponse(r) == pc[r] \notin {"idle", "direct"} /\ response[r].tag = "response"
NoResponse(r) == pc[r] \notin {"idle", "direct"} /\ response[r].tag = "None"
BrowserStarted(r) == InLog(hlog[r], "browser")

\* A body that parses as JSON matching {access_token, expires_in, token_type}.
HasTokenShape(text) ==
    /\ text.json.t = "object"
    /\ {"access_token", "expires_in", "token_type"} \subseteq DOMAIN text.json.f
    /\ text.json.f["access_token"].ty = "str"
    /\ text.json.f["expires_in"].ty = "int"
    /\ text.json.f["token_type"].ty = "str"

\* The result is the Token Result carrying the fields of `text`.
IsTokenOf(result, text) ==
    /\ result.kind = "token"
    /\ result.access_token = text.json.f["access_token"].s
    /\ result.expires_in = text.json.f["expires_in"].n
    /\ result.token_type = text.json.f["token_type"].s

IsError(result, error, status_code) ==
    /\ result.kind = "error"
    /\ result.error = error
    /\ result.status_code = status_code

HasHandlerMarker(text) ==
    "Just a moment" \in text.marks \/ "cf-challenge" \in text.marks

\* C1: when the direct exchange returns status 200 with a body that parses as
\* JSON of the token shape, get_token goes straight from the parse to its
\* return, the one result is the Token Result with the body's three fields,
\* and the browser path is never started.
C1_DirectTokenReturned ==
    \A r \in Reqs :
        (HasResponse(r) /\ response[r].status_code = 200
            /\ HasTokenShape(response[r].text))
        => /\ pc[r] \in {"parse", "done"}
           /\ ~BrowserStarted(r) /\ spc[r] = "idle" /\ slog[r] = <<>>
           /\ Done(r) => /\ Len(returned[r]) = 1
                         /\ IsTokenOf(returned[r][1], response[r].text)

C1_Witness ==
    \E r \in Reqs :
        /\ Done(r) /\ HasResponse(r) /\ response[r].status_code = 200
        /\ HasTokenShape(response[r].text)
        /\ returned[r] = <<TokenResponse(TokenJsonB)>>

C3_TimeoutReported ==
    \A r \in Reqs :
        (Done(r) /\ wout[r] = "timeout" /\ ~FutDone(r))
        => returned[r] = <<ErrorResponse("timeout",
               "Captcha solving timed out after 5 minutes", 408)>>

BrowserText(r) ==
    Done(r) /\ wout[r] = "result" /\ sret[r].v.tag = "text"

\* C5 as stated: every text of the browser path that fails JSON parsing, the
\* empty text included, ends the request with invalid_response / 500.
C5_InvalidResponse ==
    \A r \in Reqs :
        (BrowserText(r) /\ sret[r].v.json.t = "invalid")
        => /\ Len(returned[r]) = 1
           /\ IsError(returned[r][1], "invalid_response", 500)

\* C5 amended: every non-empty text of the browser path that fails JSON
\* parsing ends the request with invalid_response / 500; the empty text ends
\* it with all_methods_failed / 500.
C5_InvalidResponseNonEmpty ==
    \A r \in Reqs :
        (BrowserText(r) /\ sret[r].v.json.t = "invalid")
        => /\ Len(returned[r]) = 1
           /\ IF sret[r].v.empty
              THEN IsError(returned[r][1], "all_methods_failed", 500)
              ELSE IsError(returned[r][1], "invalid_response", 500)

C5_Witness ==
    \E r \in Reqs :
        /\ BrowserText(r) /\ sret[r].v.json.t = "invalid" /\ ~sret[r].v.empty
        /\ IsError(returned[r][1], "invalid_response", 500)

\* C6: when fallback_request raises (response is None) the handler parses no
\* body and runs no marker test on a direct response, and it goes to the
\* browser path: past the check the browser path has been started.
C6_NoResponseGoesToBrowser ==
    \A r \in Reqs :
        NoResponse(r)
        => /\ ~InLog(hlog[r], "json")
           /\ ~InLog(hlog[r], "detect")
           /\ pc[r] \in {"await", "done"} => BrowserStarted(r) /\ spc[r] # "idle"
           /\ pc[r] = "check" => ENABLED StartBrowserPath(r) /\ ~ENABLED GiveUp(r)

C6_Witness ==
    \E r \in Reqs :
        NoResponse(r) /\ Done(r) /\ BrowserStarted(r) /\ hlog[r] = <<"direct", "browser">>

\* The solver invocation of r is in progress.
SolverRunning(r) == spc[r] \notin {"idle", "finished"}

\* C7: the direct exchange and the solver of one request are never in
\* progress together: until the handler has passed its challenge check no
\* solver was started and no session exists, and in the handler's log the
\* direct exchange comes before the browser path.
C7_DirectBeforeBrowser ==
    \A r \in Reqs :
        /\ ~(pc[r] = "direct" /\ SolverRunning(r))
        /\ pc[r] \in {"idle", "direct", "parse", "check"}
           => spc[r] = "idle" /\ session[r] = "none" /\ slog[r] = <<>>
        /\ \A i \in DOMAIN hlog[r] :
               hlog[r][i] = "browser" => (i > 1 /\ hlog[r][1] = "direct")

C7_Witness ==
    \E r \in Reqs : SolverRunning(r) /\ session[r] = "open" /\ pc[r] = "await"

\* C8: a solver invocation that has ended has no open session; the session,
\* once launched, is closed exactly when the invocation ends; and driver.quit
\* is the last call of the invocation: no call follows the close.
C8_SessionClosed ==
    \A r \in Reqs :
        /\ (spc[r] = "finished" \/ FutDone(r)) => session[r] # "open"
        /\ (spc[r] = "finished" /\ Len(slog[r]) > 1) => session[r] = "closed"
        /\ session[r] = "closed" => spc[r] = "finished"
        /\ \A i \in DOMAIN slog[r] :
               slog[r][i] = "quit" => i = Len(slog[r])

C8_Witness ==
    \E r \in Reqs :
        /\ spc[r] = "finished" /\ session[r] = "closed"
        /\ sret[r] = Return(None)
        /\ slog[r] = <<"launch", "get", "page_source", "quit">>

ErrorCategories ==
    {"http_error", "invalid_response", "timeout", "captcha_failed",
     "all_methods_failed"}

\* C9: a request returns at most one result, exactly one once it has ended,
\* a Token Result or an Error Result and not both, and an Error Result's
\* category is one of the closed set.
C9_ExactlyOneOutcome ==
    \A r \in Reqs :
        /\ Len(returned[r]) = (IF Done(r) THEN 1 ELSE 0)
        /\ \A i \in DOMAIN returned[r] :
               \/ /\ returned[r][i].kind = "token"
                  /\ returned[r][i].error = ""
               \/ /\ returned[r][i].kind = "error"
                  /\ returned[r][i].access_token = ""
                  /\ returned[r][i].error \in ErrorCategories

C9_Witness ==
    \E r \in Reqs :
        /\ Done(r) /\ wout[r] = "failure"
        /\ returned[r] = <<ErrorResponse("captcha_failed",
               "Captcha solving failed", 500)>>

\* C10: every request whose handler was started returns a result, also when
\* the solver never takes another step; a request waiting on the wrapper is
\* answered when its deadline is reached, and its wait never passes it.
C10_AlwaysAnswered ==
    \A r \in Reqs :
        /\ (pc[r] = "direct") ~> Done(r)
        /\ (pc[r] = "await") ~> Done(r)
        /\ [](pc[r] = "await" => clock[r] < TimeoutSec + TickSec)

C10_Witness ==
    \E r \in Reqs :
        /\ Done(r) /\ wout[r] = "timeout"
        /\ spc[r] = "launch" /\ slog[r] = <<>>

\* What get_token was handed by `await run_2captcha_with_timeout()`.
WrapperGave(r) == run_2captcha_with_timeout(sret[r], wout[r] = "timeout")

\* The ways a solver invocation fails: it returns None or it raises.
SolverFailures == {Return(None), Raise("WebDriverException")}

\* C11 as stated: a run of the wrapper ends in one of result, timeout and
\* solver-failure; a result is handed over only when the solver's future is
\* done with a text; and the caller can tell the outcomes apart: what it is
\* handed on a timeout is nothing it is handed on a solver failure.
C11_OutcomeTold ==
    \A r \in Reqs :
        /\ Done(r) /\ BrowserStarted(r) => wout[r] \in {"result", "failure", "timeout"}
        /\ wout[r] \in {"result", "failure"} => FutDone(r)
        /\ (Done(r) /\ wout[r] = "timeout")
           => WrapperGave(r) \notin
                  {run_2captcha_with_timeout(f, FALSE) : f \in SolverFailures}

\* How often x occurs in a log.
Count(log, x) == Cardinality({i \in DOMAIN log : log[i] = x})

\* C12: in one request the direct exchange is issued once and the browser path
\* at most once, with at most one solver invocation and one session launch,
\* also after the browser path failed, timed out or gave an unusable body;
\* a request that has ended does nothing more.
C12_NothingRetried ==
    \A r \in Reqs :
        /\ Count(hlog[r], "direct") = (IF pc[r] = "idle" THEN 0 ELSE 1)
        /\ Count(hlog[r], "browser") <= 1
        /\ Count(slog[r], "launch") <= 1
        /\ Count(slog[r], "fetch") <= 1
        /\ Done(r) => ~ENABLED Handler(r)
        /\ spc[r] = "finished" => ~ENABLED Solver(r)

C12_Witness ==
    \E r \in Reqs :
        /\ Done(r) /\ wout[r] = "result" /\ sret[r] = Return(None)
        /\ IsError(returned[r][1], "all_methods_failed", 500)
        /\ Count(hlog[r], "browser") = 1 /\ Count(slog[r], "launch") = 1

\* A JSON body with the three token fields whose expires_in is a string that
\* spells a number: the model class converts it.
ConvertibleShape(text) ==
    /\ text.json.t = "object"
    /\ {"access_token", "expires_in", "token_type"} \subseteq DOMAIN text.json.f
    /\ text.json.f["access_token"].ty = "str"
    /\ text.json.f["token_type"].ty = "str"
    /\ text.json.f["expires_in"].ty = "str"
    /\ text.json.f["expires_in"].s \in {"1800", "3600"}

\* The browser path handed over a text that parses as JSON but is not of the
\* token shape.
BrowserJsonOffShape(r) ==
    /\ BrowserText(r)
    /\ sret[r].v.json.t # "invalid"
    /\ ~HasTokenShape(sret[r].v)

\* C13 as stated: a text of the browser path that parses as JSON but does not
\* match the token shape ends the request with invalid_response / 500.
C13_OffShapeInvalidResponse ==
    \A r \in Reqs :
        BrowserJsonOffShape(r)
        => /\ Len(returned[r]) = 1
           /\ IsError(returned[r][1], "invalid_response", 500)

\* C13 amended: such a text ends the request with captcha_failed / 500 when
\* the model class rejects it (no object, a missing field, a field it cannot
\* convert), and with a Token Result when the only mismatch is one the model
\* class converts (expires_in as a numeric string).
C13_OffShapeCaptchaFailed ==
    \A r \in Reqs :
        BrowserJsonOffShape(r)
        => /\ Len(returned[r]) = 1
           /\ IF ConvertibleShape(sret[r].v)
              THEN /\ returned[r][1].kind = "token"
                   /\ returned[r][1].access_token
                          = sret[r].v.json.f["access_token"].s
                   /\ returned[r][1].expires_in \in {1800, 3600}
              ELSE IsError(returned[r][1], "captcha_failed", 500)

C13_Witness ==
    \E r \in Reqs :
        /\ BrowserJsonOffShape(r)
        /\ sret[r].v = JsonText(PartialJson)
        /\ IsError(returned[r][1], "captcha_failed", 500)

\* A body from which no Token Result can be made.
CannotBeToken(text) == ~HasTokenShape(text) /\ ~ConvertibleShape(text)

\* C14: a status-200 response whose body cannot be made a Token Result does
\* not end the request at the parse: the handler runs its marker test, starts
\* the browser path exactly when the body holds a marker, ends with an Error
\* Result otherwise, and a Token Result it returns comes from the browser
\* path's text.
C14_Status200FallsThrough ==
    \A r \in Reqs :
        (HasResponse(r) /\ response[r].status_code = 200
            /\ CannotBeToken(response[r].text))
        => /\ pc[r] = "check"
              => /\ ENABLED StartBrowserPath(r)
                     <=> HasHandlerMarker(response[r].text)
                 /\ ENABLED GiveUp(r) <=> ~HasHandlerMarker(response[r].text)
           /\ pc[r] \in {"await", "done"}
              => /\ InLog(hlog[r], "detect")
                 /\ BrowserStarted(r) <=> HasHandlerMarker(response[r].text)
           /\ (Done(r) /\ ~BrowserStarted(r)) => returned[r][1].kind = "error"
           /\ (Done(r) /\ returned[r][1].kind = "token")
              => /\ wout[r] = "result"
                 /\ sret[r].v.tag = "text"
                 /\ returned[r][1].access_token
                        = sret[r].v.json.f["access_token"].s

C14_Witness ==
    \E r \in Reqs :
        /\ Done(r) /\ HasResponse(r) /\ response[r].status_code = 200
        /\ response[r].text = JsonText(ErrorJson)
        /\ returned[r] = <<TokenResponse(TokenJsonB)>>

\* The solver invocation of r has left its try block.
SolverLeftTry(r) == spc[r] \in {"quit", "finished"}

\* C16 as stated: once the launch succeeded and the solver has come to read
\* the rendered page, no error of the steps that follow keeps it from the
\* in-page token POST: an invocation that has left its try block has made
\* the fetch call.
C16_StepErrorsCaught ==
    \A r \in Reqs :
        (SolverLeftTry(r) /\ InLog(slog[r], "page_source"))
        => InLog(slog[r], "fetch")

\* C16 amended: once the rendered page was read, an error of the frame wait,
\* the frame lookup, the solving-service call or the injection (and a frame
\* that never appears) does not keep the solver from the token POST; an error
\* of reading the rendered page itself ends the invocation with None and
\* without the POST.
C16_InnerErrorsCaught ==
    \A r \in Reqs :
        /\ (SolverLeftTry(r) /\ page[r].tag = "text") => InLog(slog[r], "fetch")
        /\ (SolverLeftTry(r) /\ InLog(slog[r], "page_source")
               /\ page[r].tag = "None")
           => ~InLog(slog[r], "fetch") /\ sret[r].v = None
        /\ spc[r] \in {"wait_frame", "find_frame", "turnstile", "inject"}
           => page[r].tag = "text" /\ sret[r] = Pending

C16_Witness ==
    \E r \in Reqs :
        /\ spc[r] = "finished"
        /\ slog[r] = <<"launch", "get", "page_source", "wait_frame",
                       "find_frame", "sitekey", "turnstile", "fetch", "quit">>
        /\ sret[r].v.tag = "text"

\* The launch of r's solver failed: the invocation is over and never had a
\* session.
LaunchFailed(r) == spc[r] = "finished" /\ session[r] = "none"

\* C17: a failed launch ends the solver invocation at once, with the launch
\* as its only call and never a second launch; the exception is the solver's
\* outcome; the request ends with captcha_failed or all_methods_failed and
\* status_code 500 (captcha_failed when the wrapper passed the exception on);
\* no session is open.
C17_LaunchFailureFatal ==
    \A r \in Reqs :
        /\ Count(slog[r], "launch") <= 1
        /\ LaunchFailed(r)
           => /\ slog[r] = <<"launch">>
              /\ sret[r] = Raise("WebDriverException")
              /\ page[r] = None
              /\ ~ENABLED Solver(r)
        /\ (LaunchFailed(r) /\ Done(r))
           => /\ Len(returned[r]) = 1
              /\ returned[r][1].kind = "error"
              /\ returned[r][1].status_code = 500
              /\ returned[r][1].error \in {"captcha_failed", "all_methods_failed"}
              /\ wout[r] = "failure"
                 => returned[r][1].error = "captcha_failed"

C17_Witness ==
    \E r \in Reqs :
        /\ LaunchFailed(r) /\ Done(r) /\ wout[r] = "failure"
        /\ IsError(returned[r][1], "captcha_failed", 500)

\* C18: a solver abandoned at the deadline that has not finished is still
\* running and can take its next step; and, with fair solver steps, every session that is opened is closed
\* in the end, whether or not its request has been answered by then.
C18_AbandonedSolverCleansUp ==
    \A r \in Reqs :
        /\ []((Done(r) /\ wout[r] = "timeout" /\ SolverRunning(r))
                 => ENABLED Solver(r))
        /\ (session[r] = "open") ~> (session[r] = "closed")
        /\ (Done(r) /\ session[r] = "open") ~> (session[r] = "closed")

C18_Witness ==
    \E r \in Reqs :
        /\ Done(r) /\ wout[r] = "timeout"
        /\ IsError(returned[r][1], "all_methods_failed", 500)
        /\ spc[r] = "finished" /\ session[r] = "closed"
        /\ sret[r] = Return(JsonText(TokenJsonA))
        /\ InLog(slog[r], "turnstile")

\* C19 as stated: the marker test get_token runs on the direct response's
\* text and the one the solver runs on the rendered page give the same verdict
\* on every text either of them is run on, and neither flags the empty text.
C19_OneDetector ==
    /\ ~HandlerDetects(EmptyText) /\ ~SolverDetects(EmptyText)
    /\ \A r \in Reqs :
        /\ HasResponse(r)
           => (HandlerDetects(response[r].text)
                   <=> SolverDetects(response[r].text))
        /\ page[r].tag = "text"
           => (HandlerDetects(page[r]) <=> SolverDetects(page[r]))

\* The rendered page holds one of the markers the solver looks for.
PageFlagged(text) ==
    text.marks \cap {"Just a moment", "challenges.cloudflare.com", "cf-challenge"}
        # {}

\* C20: the solving service is called at most once, and only right after a
\* site key was taken from the frame that was waited for and found on a
\* flagged page; on a page that is not flagged the token POST is the call
\* that follows the page read, with no frame wait, no solving-service call
\* and no injection; an injection follows the solving-service call and comes
\* before the token POST.
C20_SolveAfterSiteKey ==
    \A r \in Reqs :
        /\ Count(slog[r], "turnstile") <= 1
        /\ \A i \in DOMAIN slog[r] :
            /\ slog[r][i] = "turnstile"
               => /\ i > 3
                  /\ slog[r][i - 1] = "sitekey"
                  /\ slog[r][i - 2] = "find_frame"
                  /\ slog[r][i - 3] = "wait_frame"
                  /\ page[r].tag = "text" /\ PageFlagged(page[r])
            /\ slog[r][i] = "inject"
               => /\ i > 1 /\ slog[r][i - 1] = "turnstile"
                  /\ \A j \in DOMAIN slog[r] : slog[r][j] = "fetch" => i < j
        /\ (page[r].tag = "text" /\ ~PageFlagged(page[r]))
           => /\ \A i \in DOMAIN slog[r] :
                     slog[r][i] \notin
                         {"wait_frame", "find_frame", "sitekey", "turnstile",
                          "inject"}
              /\ spc[r] \in {"fetch", "quit", "finished"}
              /\ \A i \in DOMAIN slog[r] :
                     (slog[r][i] = "page_source" /\ i < Len(slog[r]))
                     => slog[r][i + 1] = "fetch"

C20_Witness ==
    \E r \in Reqs :
        /\ spc[r] = "finished"
        /\ slog[r] = <<"launch", "get", "page_source", "wait_frame",
                       "find_frame", "sitekey", "turnstile", "inject",
                       "fetch", "quit">>

\* C15 as stated: a handler has given up the event loop while it waits for
\* its direct exchange, as it has while it waits on the wrapper, so that
\* another request's handler can take its step meanwhile: a new request can
\* be started and a request whose solver has answered can go on.
C15_YieldsAtDirectExchange ==
    \A r1 \in DOMAIN pc :
        /\ pc[r1] \in {"direct", "await"} => running # r1
        /\ \A r2 \in DOMAIN pc \ {r1} :
            pc[r1] = "direct"
            => /\ pc[r2] = "idle" => ENABLED Accept(r2)
               /\ (pc[r2] = "await" /\ FutDone(r2)) => ENABLED SolverAnswers(r2)

====
